---- MODULE Spec2Model ----
(***************************************************************************)
(* MindDisc (Mind-Bridge): DISC x mental-health risk scoring and the       *)
(* consent-gated CRUD routes around it.                                    *)
(*                                                                         *)
(* Numbers.  The code computes in double precision.  The model computes    *)
(* the same quantities exactly, as integers over a common denominator:     *)
(*   - a multiplier or weight w is held as 10*w (1.3 -> 13, 0.4 -> 4);     *)
(*   - a normalised score n is held as n * NormUnit;                       *)
(*   - an adjusted score a is held as a * AdjUnit;                         *)
(*   - the weighted score s is held as s * ScoreUnit;                      *)
(*   - a value rounded to one decimal is held in tenths (25.0 -> 250).     *)
(* For integer inputs the double result and the exact result fall on the   *)
(* same side of every tier threshold except where float_above says so.     *)
(***************************************************************************)
EXTENDS Integers, FiniteSets, Sequences, TLC

VARIABLES
    db,                     \* the committed rows of every table
    response,               \* the last HTTP request served and its answer
    disc_results,           \* argument of the scoring call under study
    mental_health_results,  \* argument of the scoring call under study
    risk_assessment,        \* result of _calculate_risk_assessment
    oversight,              \* result of _requires_professional_oversight
    pc,                     \* position of the scoring call: "start", "scored", "decided"
    served,                 \* number of HTTP requests served so far
    engine,                 \* lookup tables held by the module-level engine objects
    call,                   \* the last call of a scoring operation: op, input, result
    parser,                 \* _parse_ai_response: lines left, current section, lists
    now                     \* datetime.utcnow(), in days since the tables were created

vars == <<db, response, disc_results, mental_health_results, risk_assessment, oversight,
          pc, served, engine, call, parser, now>>

scoring_vars == <<disc_results, mental_health_results, risk_assessment, oversight, pc>>

http_vars == <<db, response, served, now>>

engine_vars == <<engine, call, parser>>

(***************************************************************************)
(* Python helpers                                                          *)
(***************************************************************************)

\* dict.get(key, default): a dict is a function whose DOMAIN is its keys
Get(d, key, default) == IF key \in DOMAIN d THEN d[key] ELSE default

Min(a, b) == IF a <= b THEN a ELSE b

\* round(n / d, 1) in tenths, for n >= 0 and d > 0: ties go to the even tenth
Round1(n, d) ==
    LET q == (n * 10) \div d
        r == (n * 10) % d
    IN  IF 2 * r > d \/ (2 * r = d /\ q % 2 = 1) THEN q + 1 ELSE q

(***************************************************************************)
(* AIAnalysis.get_risk_multipliers and _calculate_risk_assessment          *)
(***************************************************************************)

PHQ9_MAX == 27
GAD7_MAX == 21
NORM_MAX == 100

NormUnit == PHQ9_MAX * GAD7_MAX
AdjUnit == NormUnit * 10
ScoreUnit == AdjUnit * 10

\* the multiplier table, each multiplier times 10
get_risk_multipliers ==
    [D |-> [burnout |-> 13, anxiety |-> 11, depression |-> 9],
     I |-> [burnout |-> 11, anxiety |-> 12, depression |-> 14],
     S |-> [burnout |-> 12, anxiety |-> 14, depression |-> 11],
     C |-> [burnout |-> 11, anxiety |-> 15, depression |-> 13]]

\* AIAnalysisEngine.__init__: self.risk_multipliers
risk_multipliers == get_risk_multipliers

\* the weights of the overall score, each times 10
weights == [depression |-> 3, anxiety |-> 3, burnout |-> 4]

\* faulty variant: the fallback is the last row of the table instead of the D row
multipliers_for_last_row(primary_style) ==
    Get(risk_multipliers, primary_style, risk_multipliers["C"])

\* multipliers = self.risk_multipliers.get(primary_style, self.risk_multipliers['D'])
multipliers_for(primary_style) == Get(risk_multipliers, primary_style, risk_multipliers["D"])

\* min((phq9_score / 27) * 100, 100), times NormUnit
phq9_normalized(phq9_score) == Min(phq9_score * NORM_MAX * GAD7_MAX, NORM_MAX * NormUnit)

\* min((gad7_score / 21) * 100, 100), times NormUnit
gad7_normalized(gad7_score) == Min(gad7_score * NORM_MAX * PHQ9_MAX, NORM_MAX * NormUnit)

\* min(burnout_score, 100), times NormUnit
burnout_normalized(burnout_score) == Min(burnout_score * NormUnit, NORM_MAX * NormUnit)

\* the three adjusted scores, times AdjUnit
adjusted_scores(multipliers, mh) ==
    [depression |-> phq9_normalized(Get(mh, "phq9_score", 0)) * multipliers.depression,
     anxiety    |-> gad7_normalized(Get(mh, "gad7_score", 0)) * multipliers.anxiety,
     burnout    |-> burnout_normalized(Get(mh, "burnout_score", 0)) * multipliers.burnout]

\* overall_risk_score before rounding, times ScoreUnit
weighted_score(adjusted) ==
    adjusted.depression * weights.depression
    + adjusted.anxiety * weights.anxiety
    + adjusted.burnout * weights.burnout

\* The double-precision sum lands just above the exact value where the exact
\* value is a tier threshold: 25/27*100*0.9*0.3 evaluates to 25.000000000000004.
float_above(multipliers, mh) ==
    /\ multipliers = risk_multipliers["D"]
    /\ Get(mh, "phq9_score", 0) = 25
    /\ Get(mh, "gad7_score", 0) = 0
    /\ Get(mh, "burnout_score", 0) = 0

\* overall_risk_score <= limit, for the unrounded score held as [exact, above]
score_leq(score, limit) ==
    \/ score.exact < limit * ScoreUnit
    \/ score.exact = limit * ScoreUnit /\ ~score.above

\* faulty variant: the tiers are cut with < instead of <=
risk_level_of_strict(score) ==
    IF score.exact < 25 * ScoreUnit THEN "low"
    ELSE IF score.exact < 50 * ScoreUnit THEN "moderate"
    ELSE IF score.exact < 75 * ScoreUnit THEN "high"
    ELSE "critical"

\* the if/elif ladder of the risk tiers
risk_level_of(score) ==
    IF score_leq(score, 25) THEN "low"
    ELSE IF score_leq(score, 50) THEN "moderate"
    ELSE IF score_leq(score, 75) THEN "high"
    ELSE "critical"

_calculate_risk_assessment(disc, mh) ==
    LET primary_style == Get(disc, "primary_style", "D")
        multipliers   == multipliers_for(primary_style)
        adjusted      == adjusted_scores(multipliers, mh)
        score         == [exact |-> weighted_score(adjusted),
                          above |-> float_above(multipliers, mh)]
    IN  [weighted_score     |-> score,
         overall_risk_score |-> Round1(score.exact, ScoreUnit),
         risk_level         |-> risk_level_of(score),
         individual_risks   |->
             [depression_risk |-> Round1(adjusted.depression, AdjUnit),
              anxiety_risk    |-> Round1(adjusted.anxiety, AdjUnit),
              burnout_risk    |-> Round1(adjusted.burnout, AdjUnit)],
         disc_multipliers_applied |-> multipliers]

(***************************************************************************)
(* _requires_professional_oversight                                        *)
(***************************************************************************)

\* faulty variant: the burnout criterion uses the 70 of check_professional_oversight_required
_requires_professional_oversight_burnout70(ra, mh) ==
    \/ ra.overall_risk_score > 750
    \/ ra.risk_level \in {"high", "critical"}
    \/ Get(mh, "phq9_score", 0) >= 15
    \/ Get(mh, "gad7_score", 0) >= 15
    \/ Get(mh, "burnout_score", 0) >= 70

_requires_professional_oversight(ra, mh) ==
    \/ ra.overall_risk_score > 750
    \/ ra.risk_level \in {"high", "critical"}
    \/ Get(mh, "phq9_score", 0) >= 15
    \/ Get(mh, "gad7_score", 0) >= 15
    \/ Get(mh, "burnout_score", 0) >= 80

(***************************************************************************)
(* The database: SQLite through Flask-SQLAlchemy.  A table is the set of   *)
(* its committed rows; a row is a record of the columns the routes read.   *)
(* A handler works on a copy of the tables (the session's pending state)   *)
(* and ends with commit or rollback.  SQLite does not enforce foreign keys *)
(* (no PRAGMA foreign_keys), so user_id may name a user that is absent.    *)
(***************************************************************************)

TableNames ==
    {"users", "consent_management", "disc_assessments", "mental_health_assessments",
     "personalized_insights", "professional_oversight", "ai_governance",
     "data_processing_logs", "ai_analyses", "data_retention_policies"}

\* id = db.Column(db.Integer, primary_key=True): SQLite gives max(rowid) + 1
next_id(rows) ==
    IF rows = {} THEN 1
    ELSE (CHOOSE m \in {r.id : r \in rows} : \A r \in rows : r.id <= m) + 1

\* db.session.add(row) followed by the flush that assigns the primary key
session_add(s, table, row) ==
    [s EXCEPT ![table] = @ \cup {[id |-> next_id(@)] @@ row}]

\* db.session.commit(): the pending state becomes the committed state
session_commit(committed, pending) == pending

\* faulty variant: rollback keeps what the session had added
session_rollback_keeps(committed, pending) == pending

\* db.session.rollback(): the pending state is discarded
session_rollback(committed, pending) == committed

\* Model.query.filter_by(user_id=user_id).first(): the row SQLite scans first
first_by_user(rows, user_id) ==
    LET found == {r \in rows : r.user_id = user_id}
    IN  IF found = {} THEN {}
        ELSE {CHOOSE r \in found : \A o \in found : r.id <= o.id}

\* User.query.get(user_id)
user_by_id(users, user_id) == {u \in users : u.id = user_id}

\* the default declarative constructor: an unknown keyword raises TypeError
constructor_accepts(attrs, kwargs) == kwargs \subseteq attrs

ConsentFlags ==
    {"disc_assessment", "mental_health_screening", "predictive_analysis",
     "professional_supervision", "data_sharing_research", "marketing_communications"}

\* ConsentManagement(user_id=...): every consent column defaults to False
ConsentManagement(user_id) ==
    [user_id |-> user_id,
     disc_assessment |-> FALSE, mental_health_screening |-> FALSE,
     predictive_analysis |-> FALSE, professional_supervision |-> FALSE,
     data_sharing_research |-> FALSE, marketing_communications |-> FALSE]

\* attributes of the mapped classes (columns and relationship backrefs)
ProfessionalOversight_attrs ==
    {"id", "user_id", "professional_id", "assessment_id", "risk_level",
     "intervention_required", "intervention_type", "intervention_notes",
     "review_date", "next_review_date", "review_status", "professional_notes",
     "confidentiality_level", "created_at", "user", "professional"}

AIGovernance_attrs ==
    {"id", "user_id", "model_version", "model_type", "input_data_hash",
     "prediction_result", "confidence_score", "explanation", "feature_importance",
     "human_review_required", "human_reviewer_id", "human_review_date",
     "human_review_notes", "risk_assessment", "bias_check_passed", "bias_metrics",
     "created_at", "user"}

AIAnalysis_attrs ==
    {"id", "analysis_id", "user_id", "disc_assessment_id", "mental_health_assessment_id",
     "disc_data", "mental_health_data", "user_context", "overall_risk_score",
     "risk_level", "confidence_score", "correlation_analysis", "risk_factors",
     "protective_factors", "personalized_recommendations", "intervention_priority",
     "professional_oversight_required", "professional_review_status",
     "professional_notes", "ai_model_version", "openai_model_used",
     "processing_time_ms", "created_at", "updated_at", "expires_at"}

(***************************************************************************)
(* main.py: create_sample_data, run by before_request ahead of the first   *)
(* handler                                                                 *)
(***************************************************************************)

DemoEmail == "demo@mindbridge.com"

create_sample_data ==
    [users |-> {[id |-> 1, email |-> DemoEmail]},
     consent_management |->
        {[id |-> 1, user_id |-> 1,
          disc_assessment |-> TRUE, mental_health_screening |-> TRUE,
          predictive_analysis |-> TRUE, professional_supervision |-> TRUE,
          data_sharing_research |-> FALSE, marketing_communications |-> FALSE]},
     disc_assessments |-> {[id |-> 1, user_id |-> 1, primary_style |-> "C"]},
     mental_health_assessments |->
        {[id |-> 1, user_id |-> 1,
          scores |-> [phq9_score |-> 8, gad7_score |-> 6, burnout_score |-> 45]]},
     personalized_insights |->
        {[id |-> 1, user_id |-> 1, category |-> "productivity"],
         [id |-> 2, user_id |-> 1, category |-> "wellness"]},
     professional_oversight |->
        {[id |-> 1, user_id |-> 1, professional_id |-> 1, risk_level |-> "medium"]},
     ai_governance |->
        {[id |-> 1, user_id |-> 1, model_version |-> "mindbridge_v2.0",
          human_review_required |-> FALSE]},
     data_processing_logs |-> {},
     ai_analyses |-> {},
     data_retention_policies |->
        {[id |-> 1, data_type |-> "assessment_data", retention_period_days |-> 2555,
          auto_deletion_enabled |-> TRUE],
         [id |-> 2, data_type |-> "personal_info", retention_period_days |-> 1095,
          auto_deletion_enabled |-> TRUE],
         [id |-> 3, data_type |-> "processing_logs", retention_period_days |-> 365,
          auto_deletion_enabled |-> TRUE]}]

(***************************************************************************)
(* routes/user.py                                                          *)
(***************************************************************************)

\* faulty variant: the ai_governance relationship is missing from User
user_relationships_without_governance ==
    {"disc_assessments", "mental_health_assessments", "consent_management",
     "professional_oversight", "personalized_insights", "data_processing_logs"}

\* the relationships of User, all cascade='all, delete-orphan'
user_relationships ==
    {"disc_assessments", "mental_health_assessments", "consent_management",
     "professional_oversight", "personalized_insights", "ai_governance",
     "data_processing_logs"}

\* db.session.delete(user): the user row and the rows of every relationship
session_delete_user(s, user_id) ==
    [t \in TableNames |->
        IF t = "users" THEN {u \in s[t] : u.id # user_id}
        ELSE IF t \in user_relationships THEN {r \in s[t] : r.user_id # user_id}
        ELSE s[t]]

\* faulty variant: the lookup finds nobody, so the duplicate test never fires
find_user_by_email_nobody(users, email) == {}

\* User.query.filter_by(email=data['email']).first()
find_user_by_email(users, email) == {u \in users : u.email = email}

\* POST /users
create_user(d, data) ==
    LET existing_user == find_user_by_email(d.users, data.email)
        user_id == next_id(d.users)
        s1 == session_add(d, "users", [email |-> data.email])
        s2 == session_add(s1, "consent_management", ConsentManagement(user_id))
    IN  IF existing_user # {}
        THEN [db |-> d, response |-> [op |-> "create_user", request |-> data, status |-> 400]]
        ELSE IF "name" \notin DOMAIN data      \* data['name'] raises KeyError
        THEN [db |-> session_rollback(d, d),
              response |-> [op |-> "create_user", request |-> data, status |-> 500]]
        ELSE [db |-> session_commit(d, s2),
              response |-> [op |-> "create_user", request |-> data, status |-> 201,
                            user_id |-> user_id]]

\* DELETE /users/<id>; get_or_404 aborts inside the try, so a missing user is a 500
delete_user(d, user_id) ==
    IF user_by_id(d.users, user_id) = {}
    THEN [db |-> session_rollback(d, d),
          response |-> [op |-> "delete_user", request |-> [user_id |-> user_id],
                        status |-> 500]]
    ELSE [db |-> session_commit(d, session_delete_user(d, user_id)),
          response |-> [op |-> "delete_user", request |-> [user_id |-> user_id],
                        status |-> 200]]

\* the six "if '<flag>' in data: consent.<flag> = data['<flag>']" assignments
set_consent_flags(consent, data) ==
    [f \in DOMAIN consent |->
        IF f \in ConsentFlags /\ f \in DOMAIN data THEN data[f] ELSE consent[f]]

\* PUT /users/<id>/consent
update_user_consent(d, user_id, data) ==
    LET consent == first_by_user(d.consent_management, user_id)
        request == [user_id |-> user_id, data |-> data]
    IN  IF consent = {}
        THEN [db |-> d,
              response |-> [op |-> "update_user_consent", request |-> request, status |-> 404]]
        ELSE LET s1 == [d EXCEPT !.consent_management =
                            (@ \ consent) \cup {set_consent_flags(c, data) : c \in consent}]
             IN  [db |-> session_commit(d, s1),
                  response |-> [op |-> "update_user_consent", request |-> request,
                                status |-> 200]]

(***************************************************************************)
(* routes/compliance_api.py                                                *)
(***************************************************************************)

\* for key, value in consents.items(): if hasattr(consent, key): setattr(...)
apply_consents(consent, consents) ==
    [f \in DOMAIN consent |-> IF f \in DOMAIN consents THEN consents[f] ELSE consent[f]]

\* POST /compliance/gdpr/consent
record_consent(d, data) ==
    LET user_id == data.user_id
        existing_consent == first_by_user(d.consent_management, user_id)
        consents == Get(data, "consents", <<>>)
        s1 == IF existing_consent # {}
              THEN [d EXCEPT !.consent_management =
                       (@ \ existing_consent)
                       \cup {apply_consents(c, consents) : c \in existing_consent}]
              ELSE session_add(d, "consent_management",
                               apply_consents(ConsentManagement(user_id), consents))
    IN  [db |-> session_commit(d, s1),
         response |-> [op |-> "record_consent", request |-> data, status |-> 201]]

\* POST /compliance/gdpr/data-processing-log
log_data_processing(d, data, utcnow) ==
    LET s1 == session_add(d, "data_processing_logs",
                          [user_id |-> data.user_id, processing_timestamp |-> utcnow])
    IN  [db |-> session_commit(d, s1),
         response |-> [op |-> "log_data_processing", request |-> data, status |-> 201]]

\* POST /compliance/professional-oversight
create_professional_oversight(d, data) ==
    LET s1 == session_add(d, "professional_oversight",
                          [user_id |-> data.user_id,
                           professional_id |-> data.professional_id,
                           risk_level |-> data.risk_level])
    IN  [db |-> session_commit(d, s1),
         response |-> [op |-> "create_professional_oversight", request |-> data,
                       status |-> 201]]

\* faulty variant: every policy is applied, enabled or not
auto_deletion_policies_all(policies) == policies

\* DataRetentionPolicy.query.filter_by(auto_deletion_enabled=True).all()
auto_deletion_policies(policies) == {p \in policies : p.auto_deletion_enabled}

\* DataProcessingLog.query.filter(processing_timestamp < cutoff_date); a row
\* without a timestamp (NULL) matches no comparison
older_than(logs, cutoff_date) ==
    {l \in logs : "processing_timestamp" \in DOMAIN l
                  /\ l.processing_timestamp < cutoff_date}

\* the for loop over the policies, in the order of their ids
RECURSIVE apply_policies(_, _, _, _)
apply_policies(s, policies, utcnow, cleanup_results) ==
    IF policies = {} THEN [session |-> s, cleanup_results |-> cleanup_results]
    ELSE LET policy == CHOOSE p \in policies : \A o \in policies : p.id <= o.id
             cutoff_date == utcnow - policy.retention_period_days
             old_logs == older_than(s.data_processing_logs, cutoff_date)
         IN  IF policy.data_type = "assessment_data"
             THEN apply_policies(s, policies \ {policy}, utcnow,
                                 Append(cleanup_results,
                                        [processed |-> policy.data_type,
                                         older_than |-> cutoff_date]))
             ELSE IF policy.data_type = "processing_logs"
             THEN apply_policies(
                      [s EXCEPT !.data_processing_logs = @ \ old_logs],
                      policies \ {policy}, utcnow,
                      Append(cleanup_results, [deleted |-> Cardinality(old_logs)]))
             ELSE apply_policies(s, policies \ {policy}, utcnow, cleanup_results)

\* POST /compliance/data-retention/cleanup
run_data_retention_cleanup(d, utcnow) ==
    LET policies == auto_deletion_policies(d.data_retention_policies)
        done == apply_policies(d, policies, utcnow, <<>>)
    IN  [db |-> session_commit(d, done.session),
         response |-> [op |-> "run_data_retention_cleanup", status |-> 200,
                       cleanup_results |-> done.cleanup_results,
                       policies_processed |-> Cardinality(policies),
                       cleanup_date |-> utcnow]]

(***************************************************************************)
(* routes/assessment.py                                                    *)
(***************************************************************************)

\* faulty variant: only the presence of a consent record is tested
consent_refused_record_only(consent, flag) == consent = {}

\* "if not consent or not consent.<flag>"
consent_refused(consent, flag) == consent = {} \/ \E c \in consent : ~c[flag]

\* one insight for a primary style of D, I, S or C, none otherwise
generate_disc_insights(primary_style) ==
    IF primary_style = "D" THEN <<"productivity">>
    ELSE IF primary_style = "I" THEN <<"communication">>
    ELSE IF primary_style = "S" THEN <<"wellness">>
    ELSE IF primary_style = "C" THEN <<"productivity">>
    ELSE <<>>

\* faulty variant: the burnout score is not looked at
check_professional_oversight_required_without_burnout(scores) ==
    \/ Get(scores, "phq9_score", 0) >= 15
    \/ Get(scores, "gad7_score", 0) >= 15

\* "if assessment.<score> and assessment.<score> >= <threshold>: return True":
\* a score that was not sent is None and is skipped, like a score of 0
check_professional_oversight_required(scores) ==
    \/ Get(scores, "phq9_score", 0) >= 15
    \/ Get(scores, "gad7_score", 0) >= 15
    \/ Get(scores, "burnout_score", 0) >= 70

\* the keys create_disc_assessment reads with data[...]
disc_required_keys ==
    {"user_id", "dominance_score", "influence_score", "steadiness_score",
     "conscientiousness_score", "primary_style"}

RECURSIVE add_insights(_, _, _)
\* for insight_data in insights: db.session.add(PersonalizedInsight(...))
add_insights(s, user_id, insights) ==
    IF insights = <<>> THEN s
    ELSE add_insights(session_add(s, "personalized_insights",
                                  [user_id |-> user_id, category |-> Head(insights)]),
                      user_id, Tail(insights))

\* POST /assessments/disc
create_disc_assessment(d, data) ==
    LET user_id == data.user_id
        consent == first_by_user(d.consent_management, user_id)
        s1 == session_add(d, "disc_assessments",
                          [user_id |-> user_id, primary_style |-> data.primary_style])
        s2 == add_insights(s1, user_id, generate_disc_insights(data.primary_style))
    IN  IF consent_refused(consent, "disc_assessment")
        THEN [db |-> d,
              response |-> [op |-> "create_disc_assessment", request |-> data, status |-> 403]]
        ELSE IF ~(disc_required_keys \subseteq DOMAIN data)     \* KeyError
        THEN [db |-> session_rollback(d, d),
              response |-> [op |-> "create_disc_assessment", request |-> data, status |-> 500]]
        ELSE [db |-> session_commit(d, s2),
              response |-> [op |-> "create_disc_assessment", request |-> data, status |-> 201]]

\* POST /assessments/mental-health
create_mental_health_assessment(d, data) ==
    LET user_id == data.user_id
        consent == first_by_user(d.consent_management, user_id)
        scores == data.scores
        requires_oversight == check_professional_oversight_required(scores)
        s1 == session_add(d, "mental_health_assessments",
                          [user_id |-> user_id, scores |-> scores])
        s2 == session_add(s1, "ai_governance",
                          [user_id |-> user_id, model_version |-> "mental_health_v1.0",
                           human_review_required |-> requires_oversight])
    IN  IF consent_refused(consent, "mental_health_screening")
        THEN [db |-> d,
              response |-> [op |-> "create_mental_health_assessment", request |-> data,
                            status |-> 403]]
        ELSE [db |-> session_commit(d, s2),
              response |-> [op |-> "create_mental_health_assessment", request |-> data,
                            status |-> 201,
                            requires_professional_oversight |-> requires_oversight]]

(***************************************************************************)
(* services/ai_analysis_engine.py: AIAnalysisEngine.analyze_correlation    *)
(***************************************************************************)

\* the keywords analyze_correlation passes to AIAnalysis(...)
analysis_kwargs ==
    {"analysis_id", "user_id", "disc_data", "mental_health_data", "user_context",
     "overall_risk_score", "risk_level", "confidence_score", "correlation_analysis",
     "risk_factors", "protective_factors", "personalized_recommendations",
     "intervention_priority", "professional_oversight_required", "ai_model_version",
     "openai_model_used", "processing_time_ms", "expires_at"}

\* the keywords _create_professional_oversight_record passes to ProfessionalOversight(...)
oversight_kwargs ==
    {"user_id", "case_type", "risk_level", "case_description",
     "assigned_professional_id", "status", "priority", "created_at"}

\* the keywords _log_ai_governance passes to AIGovernance(...)
governance_kwargs ==
    {"user_id", "model_version", "input_data_hash", "prediction_result",
     "confidence_score", "explanation", "human_review_required", "risk_assessment",
     "automated_decision_made", "decision_type"}

\* _create_professional_oversight_record: the row it adds when the constructor returns
_create_professional_oversight_record(s, user_id, ra) ==
    session_add(s, "professional_oversight",
                [user_id |-> user_id, professional_id |-> 0, risk_level |-> ra.risk_level])

\* _log_ai_governance: the row it adds when the constructor returns
_log_ai_governance(s, user_id, ra) ==
    session_add(s, "ai_governance",
                [user_id |-> user_id, model_version |-> "v2.0.0-eu-compliant_correlation_analysis",
                 human_review_required |-> (ra.overall_risk_score > 750)])

\* rows the session holds that the committed state does not
pending_rows(committed, s) ==
    LET counts == [t \in TableNames |-> Cardinality(s[t] \ committed[t])]
    IN  counts["ai_analyses"] + counts["professional_oversight"] + counts["ai_governance"]

\* the try block of analyze_correlation, step by step; the first constructor that
\* rejects a keyword raises TypeError and control passes to the except branch
engine_analyze_correlation(d, user_id, disc, mh) ==
    LET ra == _calculate_risk_assessment(disc, mh)
        professional_oversight_required == _requires_professional_oversight(ra, mh)
        s1 == session_add(d, "ai_analyses",
                          [user_id |-> user_id,
                           overall_risk_score |-> ra.overall_risk_score,
                           risk_level |-> ra.risk_level,
                           professional_oversight_required |-> professional_oversight_required])
        s2 == IF professional_oversight_required
              THEN _create_professional_oversight_record(s1, user_id, ra)
              ELSE s1
        s3 == _log_ai_governance(s2, user_id, ra)
        failed(s, step) ==
            [db |-> session_rollback(d, s), success |-> FALSE, raised |-> step,
             discarded |-> pending_rows(d, s), risk_assessment |-> ra,
             professional_oversight_required |-> professional_oversight_required]
    IN  IF ~constructor_accepts(AIAnalysis_attrs, analysis_kwargs)
        THEN failed(d, "AIAnalysis")
        ELSE IF professional_oversight_required
                /\ ~constructor_accepts(ProfessionalOversight_attrs, oversight_kwargs)
        THEN failed(s1, "ProfessionalOversight")
        ELSE IF ~constructor_accepts(AIGovernance_attrs, governance_kwargs)
        THEN failed(s2, "AIGovernance")
        ELSE [db |-> session_commit(d, s3), success |-> TRUE, raised |-> "none",
              discarded |-> 0, risk_assessment |-> ra,
              professional_oversight_required |-> professional_oversight_required,
              analysis_id |-> next_id(d.ai_analyses)]

(***************************************************************************)
(* routes/ai_analysis.py: POST /ai-analysis/correlate                      *)
(***************************************************************************)

required_fields == {"user_id", "disc_results", "mental_health_results"}

\* faulty variant: the predictive_analysis consent is not tested
consent_sufficient_without_predictive(c) ==
    c.disc_assessment /\ c.mental_health_screening

\* the consent test of the route
consent_sufficient(c) ==
    c.disc_assessment /\ c.mental_health_screening /\ c.predictive_analysis

analyze_correlation(d, data) ==
    LET rejected(status) ==
            [db |-> d,
             response |-> [op |-> "analyze_correlation", request |-> data,
                           status |-> status, engine_called |-> FALSE]]
    IN  IF ~(required_fields \subseteq DOMAIN data) THEN rejected(400)
        ELSE IF user_by_id(d.users, data.user_id) = {} THEN rejected(404)
        ELSE LET consent == first_by_user(d.consent_management, data.user_id)
             IN  IF consent = {} THEN rejected(403)
                 ELSE IF \E c \in consent : ~consent_sufficient(c) THEN rejected(403)
                 ELSE LET result == engine_analyze_correlation(
                                        d, data.user_id, data.disc_results,
                                        data.mental_health_results)
                      IN  [db |-> result.db,
                           response |-> [op |-> "analyze_correlation", request |-> data,
                                         status |-> IF result.success THEN 200 ELSE 500,
                                         engine_called |-> TRUE,
                                         result |-> [k \in DOMAIN result \ {"db"} |-> result[k]]]]

(***************************************************************************)
(* routes/ai_analysis.py: POST /ai-analysis/batch-process                  *)
(***************************************************************************)

BATCH_LIMIT == 50

\* a JSON value of the analyses array: an object carries its members, any
\* other value (number, string, null, array) only its type
json_object(members) == [type |-> "object", members |-> members]

is_object(value) == value.type = "object"

\* the engine's return value as the loop keeps it
entry_result(r) ==
    [db |-> r.db, escaped |-> FALSE, result |-> [k \in DOMAIN r \ {"db"} |-> r[k]]]

\* the body of the for loop for one entry.  Subscripting a value that is not
\* an object raises TypeError inside the try; the except branch then calls
\* analysis_data.get on it, and that AttributeError leaves the loop.
process_entry(d, entry) ==
    IF ~is_object(entry) THEN [db |-> d, escaped |-> TRUE]
    ELSE IF ~(required_fields \subseteq DOMAIN entry.members)
    THEN [db |-> d, escaped |-> FALSE,
          result |-> [success |-> FALSE, error |-> "KeyError",
                      user_id |-> Get(entry.members, "user_id", "unknown")]]
    ELSE entry_result(engine_analyze_correlation(
                          d, entry.members.user_id, entry.members.disc_results,
                          entry.members.mental_health_results))

\* batch_results.append(result); successful += 1 or failed += 1
count_result(acc, step) ==
    IF step.escaped THEN [db |-> step.db, escaped |-> TRUE, acc |-> acc]
    ELSE [db |-> step.db, escaped |-> FALSE,
          acc |-> [results |-> Append(acc.results, step.result),
                   successful |-> acc.successful
                                    + (IF step.result.success THEN 1 ELSE 0),
                   failed |-> acc.failed
                                + (IF step.result.success THEN 0 ELSE 1)]]

\* one pass of the for loop
loop_body(d, entry, acc) == count_result(acc, process_entry(d, entry))

\* the for loop from entry i on: results, successful and failed so far; each
\* pass is evaluated once and its outcome handed to the next pass as a value
RECURSIVE process_batch(_, _, _, _)
process_batch(d, analyses_data, i, acc) ==
    IF i > Len(analyses_data) THEN [db |-> d, escaped |-> FALSE] @@ acc
    ELSE CHOOSE done \in
             {IF pass.escaped THEN [db |-> pass.db, escaped |-> TRUE] @@ pass.acc
              ELSE process_batch(pass.db, analyses_data, i + 1, pass.acc) :
                  pass \in {loop_body(d, analyses_data[i], acc)}} : TRUE

\* the answer after the loop: 500 when an exception left it, else the summary
batch_answer(data, done) ==
    LET answer(status, fields) ==
            [op |-> "batch_process_analyses", request |-> data, status |-> status]
                @@ fields
    IN  IF done.escaped
        THEN [db |-> done.db, response |-> answer(500, <<>>)]
        ELSE [db |-> done.db,
              response |->
                  answer(200,
                         [batch_results |-> done.results,
                          summary |->
                              [total_processed |-> Len(data.analyses),
                               successful |-> done.successful,
                               failed |-> done.failed]])]

batch_process_analyses(d, data) ==
    IF Get(data, "analyses", <<>>) = <<>> \/ Len(data.analyses) > BATCH_LIMIT
    THEN [db |-> d,
          response |-> [op |-> "batch_process_analyses", request |-> data,
                        status |-> 400]]
    ELSE batch_answer(data, process_batch(d, data.analyses, 1,
                                          [results |-> <<>>, successful |-> 0,
                                           failed |-> 0]))

(***************************************************************************)
(* Lookup tables of the module-level engine objects                        *)
(*   ai_engine, ai_predictions_engine, behavioral_analyzer                 *)
(* Weights and multipliers are held in tenths, accuracies in hundredths.   *)
(***************************************************************************)

\* the order in which dict.items() walks self.prediction_models
prediction_types ==
    <<"burnout_prediction", "anxiety_escalation", "depression_risk",
      "performance_decline", "team_conflict_risk">>

prediction_models ==
    [burnout_prediction |->
        [base_weights |-> [D |-> 3, I |-> 2, S |-> -1, C |-> 4],
         mental_health_multiplier |-> 21, accuracy |-> 89],
     anxiety_escalation |->
        [base_weights |-> [D |-> 1, I |-> 3, S |-> 2, C |-> 5],
         mental_health_multiplier |-> 18, accuracy |-> 84],
     depression_risk |->
        [base_weights |-> [D |-> -2, I |-> 4, S |-> 1, C |-> 3],
         mental_health_multiplier |-> 23, accuracy |-> 87],
     performance_decline |->
        [base_weights |-> [D |-> 2, I |-> 1, S |-> -2, C |-> 3],
         mental_health_multiplier |-> 15, accuracy |-> 81],
     team_conflict_risk |->
        [base_weights |-> [D |-> 5, I |-> -1, S |-> -3, C |-> 2],
         mental_health_multiplier |-> 12, accuracy |-> 76]]

\* the order in which dict.items() walks self.behavioral_patterns
pattern_names ==
    <<"high_control_pattern", "social_avoidance_pattern", "dependency_pattern",
      "perfectionism_pattern", "attention_seeking_pattern">>

\* disc_indicators of each pattern; recommendations stands for the lists of
\* strings (workplace_impacts, recommendations) the result refers to
behavioral_patterns ==
    [high_control_pattern |->
        [disc_indicators |-> [D |-> [min |-> 75, weight |-> 8],
                              S |-> [max |-> 30, weight |-> 6]],
         recommendations |-> <<"delegacao", "gestao colaborativa", "paciencia">>],
     social_avoidance_pattern |->
        [disc_indicators |-> [C |-> [min |-> 70, weight |-> 7],
                              I |-> [max |-> 25, weight |-> 8]],
         recommendations |-> <<"habilidades sociais", "mentoring", "interacao">>],
     dependency_pattern |->
        [disc_indicators |-> [S |-> [min |-> 80, weight |-> 9],
                              D |-> [max |-> 20, weight |-> 7]],
         recommendations |-> <<"autonomia", "tomada de decisao", "feedback">>],
     perfectionism_pattern |->
        [disc_indicators |-> [C |-> [min |-> 85, weight |-> 9]],
         recommendations |-> <<"gestao de tempo", "priorizacao", "padroes realistas">>],
     attention_seeking_pattern |->
        [disc_indicators |-> [I |-> [min |-> 85, weight |-> 8],
                              C |-> [max |-> 25, weight |-> 5]],
         recommendations |-> <<"expressividade", "escuta ativa", "reconhecimento">>]]

\* the attributes the three engine objects hold after construction
lookup_tables ==
    [risk_multipliers |-> risk_multipliers,
     prediction_models |-> prediction_models,
     behavioral_patterns |-> behavioral_patterns]

(***************************************************************************)
(* models/ai_predictions.py: AIPredictionsEngine                           *)
(*                                                                         *)
(* Numbers.  A probability p is held as the integer p * PredUnit together  *)
(* with the direction in which the double result lies off that exact       *)
(* value: ulp = -1 (just below), 0 (equal) or 1 (just above).  The         *)
(* direction is an input of the call, so every rounding the double         *)
(* arithmetic can produce is covered; two doubles whose exact values       *)
(* differ compare as the exact values do.                                  *)
(***************************************************************************)

\* denominators: DISC score 1000, mental health 27*10, 7*10 and 100*10,
\* multiplier 10, trend 100
MentalUnit == 27 * 7 * 1000

PredUnit == MentalUnit * 10 * 100

\* self.confidence_threshold = 0.65, on the PredUnit scale
confidence_threshold == 65 * (PredUnit \div 100)

float_gt(x, limit) == x.exact > limit \/ (x.exact = limit /\ x.ulp > 0)

float_lt(x, limit) == x.exact < limit \/ (x.exact = limit /\ x.ulp < 0)

\* max(-0.3, min(0.3, trend)) with trend = (scores[-1] - scores[0]) / 100,
\* scores read from historical_data[-3:]; the result is held in hundredths
_calculate_trend_adjustment(historical_data) ==
    LET n == Len(historical_data)
        recent == SubSeq(historical_data, IF n > 3 THEN n - 2 ELSE 1, n)
        scores == [i \in 1 .. Len(recent) |-> Get(recent[i], "overall_risk_score", 50)]
        trend == scores[Len(scores)] - scores[1]
    IN  IF n < 2 THEN 0
        ELSE IF trend > 30 THEN 30 ELSE IF trend < -30 THEN -30 ELSE trend

\* historical_data is None (NoHistory) or a list, held as [list |-> <<...>>]
NoHistory == [none |-> TRUE]

\* historical_data and len(historical_data) > 1
history_used(historical_data) ==
    "list" \in DOMAIN historical_data /\ Len(historical_data.list) > 1

\* combined_score of _calculate_prediction, on the PredUnit scale
combined_score(model, disc, mh, historical_data) ==
    LET scores == disc.scores
        disc_score ==
            Get(scores, "D", 0) * model.base_weights.D
            + Get(scores, "I", 0) * model.base_weights.I
            + Get(scores, "S", 0) * model.base_weights.S
            + Get(scores, "C", 0) * model.base_weights.C
        mental_health_score ==
            Get(mh, "phq9_score", 0) * 4 * (MentalUnit \div 270)
            + Get(mh, "gad7_score", 0) * 3 * (MentalUnit \div 210)
            + Get(mh, "burnout_score", 0) * 3 * (MentalUnit \div 1000)
        combined == disc_score * (MentalUnit \div 1000) * 10
                    + mental_health_score * model.mental_health_multiplier
    IN  IF history_used(historical_data)
        THEN combined * (100 + _calculate_trend_adjustment(historical_data.list))
        ELSE combined * 100

\* probability = max(0, min(1, combined_score))
normalise_probability(combined) ==
    LET capped == IF float_lt(combined, PredUnit) THEN combined
                  ELSE [exact |-> PredUnit, ulp |-> 0]
    IN  IF float_gt(capped, 0) THEN capped ELSE [exact |-> 0, ulp |-> 0]

timeline_months_of(probability) ==
    IF float_gt(probability, 8 * (PredUnit \div 10)) THEN 1
    ELSE IF float_gt(probability, 6 * (PredUnit \div 10)) THEN 3
    ELSE IF float_gt(probability, 4 * (PredUnit \div 10)) THEN 6
    ELSE 12

\* None when the try block raises: disc_results['scores'] is missing.  The
\* fields looked up from the probability and the type (confidence_level,
\* risk_factors, preventive_actions, explanation) are left out.
NoPrediction == [none |-> TRUE]

_calculate_prediction(prediction_type, model, disc, mh, historical_data, ulp) ==
    IF "scores" \notin DOMAIN disc THEN NoPrediction
    ELSE LET probability ==
                 normalise_probability(
                     [exact |-> combined_score(model, disc,
                                               mh, historical_data),
                      ulp |-> ulp])
         IN  [prediction_type |-> prediction_type,
              timeline_months |-> timeline_months_of(probability),
              probability |-> probability]

\* faulty variant: a prediction at the threshold is kept
above_confidence_threshold_inclusive(prediction) ==
    ~float_lt(prediction.probability, confidence_threshold)

\* prediction.probability > self.confidence_threshold
above_confidence_threshold(prediction) ==
    float_gt(prediction.probability, confidence_threshold)

\* step 1 of generate_comprehensive_predictions: the loop over the models
RECURSIVE predictions_from(_, _, _, _, _, _)
predictions_from(models, i, disc, mh, historical_data, ulp) ==
    IF i > Len(prediction_types) THEN <<>>
    ELSE LET prediction_type == prediction_types[i]
             prediction == _calculate_prediction(
                               prediction_type, models[prediction_type], disc,
                               mh, historical_data, ulp)
             rest == predictions_from(models, i + 1, disc,
                                      mh, historical_data, ulp)
         IN  IF prediction # NoPrediction /\ above_confidence_threshold(prediction)
             THEN <<[type |-> prediction.prediction_type,
                     timeline_months |-> prediction.timeline_months,
                     probability |-> prediction.probability]>> \o rest
             ELSE rest

\* the predictions list of the result; self is the engine after the call
generate_comprehensive_predictions(self, disc, mh, historical_data, ulp) ==
    LET predictions == predictions_from(self.prediction_models, 1, disc,
                                        mh, historical_data, ulp)
    IN  [self |-> self,
         result |-> [success |-> TRUE, predictions |-> predictions]]

(***************************************************************************)
(* models/behavioral_patterns.py: BehavioralPatternAnalyzer                *)
(***************************************************************************)

\* pattern_name.replace("_", " ").title() for the keys of the two tables
title_of ==
    [high_control_pattern |-> "High Control Pattern",
     social_avoidance_pattern |-> "Social Avoidance Pattern",
     dependency_pattern |-> "Dependency Pattern",
     perfectionism_pattern |-> "Perfectionism Pattern",
     attention_seeking_pattern |-> "Attention Seeking Pattern",
     burnout_risk |-> "Burnout Risk",
     isolation_risk |-> "Isolation Risk",
     anxiety_risk |-> "Anxiety Risk"]

\* one pass of the loop of _matches_pattern: the weight an indicator adds
indicator_satisfied(disc_scores, style, criteria) ==
    LET score == Get(disc_scores, style, 0)
    IN  IF "min" \in DOMAIN criteria /\ score >= criteria.min THEN TRUE
        ELSE "max" \in DOMAIN criteria /\ score <= criteria.max

RECURSIVE sum_over(_, _)
sum_over(S, f) ==
    IF S = {} THEN 0
    ELSE LET x == CHOOSE y \in S : TRUE IN f[x] + sum_over(S \ {x}, f)

\* matches, in tenths: the weights of the satisfied indicators
matched_weight(disc_scores, indicators) ==
    sum_over(DOMAIN indicators,
             [style \in DOMAIN indicators |->
                 IF indicator_satisfied(disc_scores, style, indicators[style])
                 THEN Get(indicators[style], "weight", 10) ELSE 0])

\* matches >= total_indicators * 0.7, both sides in tenths
_matches_pattern(disc_scores, indicators) ==
    matched_weight(disc_scores, indicators) >= Cardinality(DOMAIN indicators) * 7

\* self.risk_combinations, in the order dict.items() walks it
risk_names == <<"burnout_risk", "isolation_risk", "anxiety_risk">>

_matches_risk_combination(disc_scores, risk_name) ==
    IF risk_name = "burnout_risk"
    THEN Get(disc_scores, "D", 0) >= 70 /\ Get(disc_scores, "C", 0) >= 70
         /\ Get(disc_scores, "S", 0) <= 30
    ELSE IF risk_name = "isolation_risk"
    THEN Get(disc_scores, "C", 0) >= 70 /\ Get(disc_scores, "I", 0) <= 30
         /\ Get(disc_scores, "D", 0) <= 30
    ELSE Get(disc_scores, "S", 0) >= 70 /\ Get(disc_scores, "C", 0) >= 70
         /\ Get(disc_scores, "D", 0) <= 30

\* self is the analyzer after the call; the result refers to the lists of the
\* pattern table (recommendations) and copies nothing
analyze_behavioral_patterns(self, disc_scores) ==
    LET patterns == self.behavioral_patterns
        matches(name) == _matches_pattern(disc_scores, patterns[name].disc_indicators)
        risky(name) == _matches_risk_combination(disc_scores, name)
        identified == SelectSeq(pattern_names, matches)
        risks == SelectSeq(risk_names, risky)
        overall_risk_score == Min(100, Len(identified) * 20 + Len(risks) * 30)
    IN  IF DOMAIN disc_scores = {}
        THEN \* max() of an empty dict in _generate_behavioral_insights
             [self |-> self, result |-> [raised |-> "ValueError"]]
        ELSE [self |-> self,
              result |->
                  [identified_patterns |->
                       [i \in 1 .. Len(identified) |->
                           [pattern |-> title_of[identified[i]],
                            recommendations |-> patterns[identified[i]].recommendations]],
                   risk_combinations |->
                       [i \in 1 .. Len(risks) |-> [risk_type |-> title_of[risks[i]]]],
                   overall_risk_score |-> overall_risk_score,
                   requires_management_support |->
                       (overall_risk_score > 60 \/ Len(risks) > 1)]]

(***************************************************************************)
(* services/ai_analysis_engine.py: _get_disc_specific_recommendations      *)
(***************************************************************************)

\* the dict literal the function builds when it is called
base_recommendations ==
    [D |-> <<[category |-> "Lideranca", priority |-> "high",
              evidence_level |-> "strong"]>>,
     I |-> <<[category |-> "Relacionamentos", priority |-> "high",
              evidence_level |-> "strong"]>>,
     S |-> <<[category |-> "Adaptacao", priority |-> "medium",
              evidence_level |-> "moderate"]>>,
     C |-> <<[category |-> "Perfeccionismo", priority |-> "high",
              evidence_level |-> "strong"]>>]

\* the loop that sets rec['priority'] = 'high': it changes the dicts of the
\* list it walks, which are the dicts of the table
raise_priorities(recommendations, risk_level) ==
    IF risk_level \in {"high", "critical"}
    THEN [i \in 1 .. Len(recommendations) |->
             IF recommendations[i].priority = "medium"
             THEN [recommendations[i] EXCEPT !.priority = "high"]
             ELSE recommendations[i]]
    ELSE recommendations

\* faulty variant: the table is built once, kept on the engine and changed there
_get_disc_specific_recommendations_kept_table(self, style, risk_level) ==
    LET table == Get(self, "base_recommendations", base_recommendations)
        recommendations == raise_priorities(Get(table, style, <<>>), risk_level)
        changed == [st \in DOMAIN table |->
                       IF st = style THEN recommendations ELSE table[st]]
    IN  [self |-> [k \in DOMAIN self \cup {"base_recommendations"} |->
                      IF k = "base_recommendations" THEN changed ELSE self[k]],
         result |-> recommendations]

\* the table is a local of the call: the change made to it ends with the call
\* and self keeps the attributes it had
_get_disc_specific_recommendations(self, style, risk_level) ==
    LET table == base_recommendations
        recommendations == raise_priorities(Get(table, style, <<>>), risk_level)
    IN  [self |-> self, result |-> recommendations]

(***************************************************************************)
(* services/ai_analysis_engine.py: _parse_ai_response                      *)
(*                                                                         *)
(* A line is the sequence of its blank-separated words, which is what      *)
(* line.strip() leaves to look at; the keywords are written without their  *)
(* accents.                                                                *)
(***************************************************************************)

\* str.upper() on the words that occur
upper_of(word) ==
    IF word = "Resumo" THEN "RESUMO"
    ELSE IF word = "Insights" THEN "INSIGHTS"
    ELSE IF word = "principais" THEN "PRINCIPAIS"
    ELSE IF word = "Recomendacoes" THEN "RECOMENDACOES"
    ELSE IF word = "evidencias" THEN "EVIDENCIAS"
    ELSE IF word = "texto" THEN "TEXTO"
    ELSE IF word = "comprido" THEN "COMPRIDO"
    ELSE IF word = "bastante" THEN "BASTANTE"
    ELSE IF word = "a" THEN "A"
    ELSE IF word = "b" THEN "B"
    ELSE word

\* keyword in line.upper()
mentions(line, keyword) == \E i \in 1 .. Len(line) : upper_of(line[i]) = keyword

\* line.startswith(('-', bullet, '*')) or line[0].isdigit()
starts_item(line) == line[1] \in {"-", "*", "1.", "2.", "3"}

\* line.lstrip('-*0123456789. '): the leading words made of those characters go
RECURSIVE lstrip(_)
lstrip(line) ==
    IF line = <<>> THEN <<>>
    ELSE IF line[1] \in {"-", "*", "1.", "2.", "3"} THEN lstrip(Tail(line))
    ELSE line

\* len(line): the characters of the words and the blanks between them
RECURSIVE len(_)
len(line) ==
    LET chars == [w \in {"-", "*", "3", "a", "b"} |-> 1]
                 @@ [w \in {"1.", "2."} |-> 2]
                 @@ [w \in {"texto"} |-> 5] @@ [w \in {"Resumo"} |-> 6]
                 @@ [w \in {"Insights", "bastante", "comprido"} |-> 8]
                 @@ [w \in {"principais", "evidencias"} |-> 10]
                 @@ [w \in {"Recomendacoes"} |-> 13]
    IN  IF line = <<>> THEN 0
        ELSE IF Len(line) = 1 THEN chars[line[1]]
        ELSE chars[line[1]] + 1 + len(Tail(line))

\* faulty variant: the lists are returned whole
first_items_all(list, n) == list

\* list[:n]
first_items(list, n) == SubSeq(list, 1, Min(n, Len(list)))

\* the state of the walk before the first line
parse_start ==
    [pc |-> "reading", read |-> 0, line |-> <<>>, current_section |-> "None",
     correlation_summary |-> <<>>, key_insights |-> <<>>, ai_recommendations |-> <<>>]

\* the body of the for loop for one line
parse_line(p, line) ==
    LET q == [p EXCEPT !.read = @ + 1, !.line = line]
    IN  IF line = <<>> THEN q
        ELSE IF mentions(line, "RESUMO") \/ mentions(line, "CORRELACAO")
        THEN [q EXCEPT !.current_section = "summary"]
        ELSE IF mentions(line, "INSIGHTS") \/ mentions(line, "PRINCIPAIS")
        THEN [q EXCEPT !.current_section = "insights"]
        ELSE IF mentions(line, "RECOMENDACOES") \/ mentions(line, "EVIDENCIAS")
        THEN [q EXCEPT !.current_section = "recommendations"]
        ELSE IF starts_item(line)
        THEN IF p.current_section = "insights"
             THEN [q EXCEPT !.key_insights = Append(@, lstrip(line))]
             ELSE IF p.current_section = "recommendations"
             THEN [q EXCEPT !.ai_recommendations = Append(@, lstrip(line))]
             ELSE q
        ELSE IF p.current_section = "summary" /\ len(line) > 20
        THEN [q EXCEPT !.correlation_summary = Append(@, line)]
        ELSE q

\* the dict the function returns
parse_result(p) ==
    [correlation_summary |-> p.correlation_summary,
     key_insights |-> first_items(p.key_insights, 5),
     ai_recommendations |-> first_items(p.ai_recommendations, 4),
     analysis_quality |-> IF Len(p.key_insights) >= 3 THEN "high" ELSE "medium"]

(***************************************************************************)
(* Bounds and the inputs the requests are drawn from                       *)
(***************************************************************************)

MaxRequests == 4        \* requests served in one behaviour
MaxPhq9Input == 28      \* PHQ-9 inputs 0..MaxPhq9Input (one above the scale)
MaxGad7Input == 22      \* GAD-7 inputs 0..MaxGad7Input (one above the scale)
MaxBurnoutInput == 101  \* burnout inputs 0..MaxBurnoutInput (one above the scale)
MaxBatchLen == 3        \* batches of 0..MaxBatchLen entries, of every composition
MaxHistoryLen == 2      \* histories of 0..MaxHistoryLen earlier assessments
MaxDay == 3             \* days that pass after the tables were created
MaxLines == 7           \* lines of one answer of the language model

RequestUserIds == {1, 2}

NewEmail == "new@example.com"

UserRequests ==
    {[email |-> DemoEmail, name |-> "Ana"],
     [email |-> NewEmail, name |-> "Bea"],
     [email |-> NewEmail]}

ConsentPayloads ==
    {[disc_assessment |-> FALSE],
     [mental_health_screening |-> FALSE],
     [disc_assessment |-> TRUE, mental_health_screening |-> TRUE, predictive_analysis |-> TRUE],
     [predictive_analysis |-> FALSE, marketing_communications |-> TRUE]}

GdprRequests ==
    {[user_id |-> u, consents |-> p] :
        u \in RequestUserIds,
        p \in {[disc_assessment |-> FALSE, newsletter |-> TRUE],
               [mental_health_screening |-> FALSE],
               [disc_assessment |-> TRUE, mental_health_screening |-> TRUE,
                predictive_analysis |-> TRUE]}}
    \cup {[user_id |-> u] : u \in RequestUserIds}

DiscRequests ==
    {[user_id |-> u, dominance_score |-> 65, influence_score |-> 45,
      steadiness_score |-> 30, conscientiousness_score |-> 80, primary_style |-> st] :
        u \in RequestUserIds, st \in {"D", "X"}}
    \cup {[user_id |-> 1, primary_style |-> "D"]}

MentalHealthScores ==
    {[phq9_score |-> 8, gad7_score |-> 6, burnout_score |-> 45],
     [phq9_score |-> 20, gad7_score |-> 6, burnout_score |-> 45],
     [burnout_score |-> 75],
     [phq9_score |-> 14, gad7_score |-> 15, burnout_score |-> 69],
     [phq9_score |-> 14, gad7_score |-> 14, burnout_score |-> 69]}

MentalHealthRequests ==
    {[user_id |-> u, scores |-> sc] : u \in RequestUserIds, sc \in MentalHealthScores}

CorrelateRequests ==
    {[user_id |-> u, disc_results |-> dr, mental_health_results |-> mh] :
        u \in RequestUserIds,
        dr \in {[primary_style |-> "C"], <<>>},
        mh \in {[phq9_score |-> 8, gad7_score |-> 6, burnout_score |-> 45],
                [phq9_score |-> 20, gad7_score |-> 6, burnout_score |-> 45]}}
    \cup {[user_id |-> 1, disc_results |-> [primary_style |-> "C"]],
          [disc_results |-> [primary_style |-> "C"],
           mental_health_results |-> [phq9_score |-> 8]]}

LogRequests == {[user_id |-> u] : u \in RequestUserIds}

OversightRequests ==
    {[user_id |-> u, professional_id |-> 1, risk_level |-> "high"] : u \in RequestUserIds}

\* entries of a batch: two complete ones, one without mental_health_results,
\* one empty object and one value that is not an object
BatchEntries ==
    {json_object([user_id |-> 1, disc_results |-> [primary_style |-> "C"],
                  mental_health_results |->
                      [phq9_score |-> 8, gad7_score |-> 6, burnout_score |-> 45]]),
     json_object([user_id |-> 2, disc_results |-> [primary_style |-> "D"],
                  mental_health_results |->
                      [phq9_score |-> 20, gad7_score |-> 6, burnout_score |-> 45]]),
     json_object([user_id |-> 2, disc_results |-> [primary_style |-> "C"]]),
     json_object(<<>>),
     [type |-> "number"]}

RECURSIVE Seqs(_, _)
Seqs(S, n) ==
    IF n = 0 THEN {<<>>}
    ELSE LET shorter == Seqs(S, n - 1)
         IN  shorter \cup {Append(q, x) : q \in {r \in shorter : Len(r) = n - 1}, x \in S}

\* every batch of up to MaxBatchLen entries, and one batch at the limit and one
\* above it for each kind of entry
BatchRequests ==
    {<<>>}
    \cup {[analyses |-> q] : q \in Seqs(BatchEntries, MaxBatchLen)}
    \cup {[analyses |-> [i \in 1 .. n |-> e]] :
             n \in {BATCH_LIMIT, BATCH_LIMIT + 1}, e \in BatchEntries}

\* inputs of generate_comprehensive_predictions
PredictionScoreInputs == {0, 50, 100}

PredictionDiscInputs ==
    {[primary_style |-> "C",
      scores |-> [D |-> d, I |-> i, S |-> s, C |-> c]] :
        d \in PredictionScoreInputs, i \in PredictionScoreInputs,
        s \in PredictionScoreInputs, c \in PredictionScoreInputs}
    \cup {[primary_style |-> "C"], [primary_style |-> "I", scores |-> [I |-> 100]]}

PredictionMentalHealthInputs ==
    {[phq9_score |-> p, gad7_score |-> g, burnout_score |-> b] :
        p \in {0, 14, 27}, g \in {0, 21}, b \in {0, 100}}
    \cup {<<>>}

HistoryEntries == {<<>>, [overall_risk_score |-> 40], [overall_risk_score |-> 100]}

HistoryInputs ==
    {NoHistory}
    \cup {[list |-> q] : q \in Seqs(HistoryEntries, MaxHistoryLen)}
    \cup {[list |-> <<[overall_risk_score |-> 100], [overall_risk_score |-> 40], <<>>,
                      [overall_risk_score |-> 40]>>]}

UlpInputs == {-1, 0, 1}

\* inputs of analyze_behavioral_patterns: the values around every min and max
\* of the pattern table; a key that is absent is drawn as -1
PatternScoreInputs == {-1, 0, 20, 21, 25, 30, 31, 70, 74, 75, 80, 84, 85, 100}

disc_score_dict(d, i, s, c) ==
    LET value == [D |-> d, I |-> i, S |-> s, C |-> c]
    IN  [k \in {x \in DOMAIN value : value[x] >= 0} |-> value[k]]

PatternInputs ==
    {disc_score_dict(d, i, s, c) :
        d \in PatternScoreInputs, i \in PatternScoreInputs,
        s \in PatternScoreInputs, c \in PatternScoreInputs}

\* inputs of the calls made one after another on the same engine objects
EngineStyleInputs == {"D", "I", "S", "C", "X"}

EngineMentalHealthInputs ==
    {[phq9_score |-> 8, gad7_score |-> 6, burnout_score |-> 45],
     [phq9_score |-> 20, gad7_score |-> 6, burnout_score |-> 45],
     [phq9_score |-> 27, gad7_score |-> 21, burnout_score |-> 100],
     <<>>}

EngineRiskLevels == {"low", "moderate", "high", "critical"}

EngineScoreInputs == {20, 85}

EngineDiscScores ==
    {[D |-> d, I |-> i, S |-> s, C |-> c] :
        d \in EngineScoreInputs, i \in EngineScoreInputs,
        s \in EngineScoreInputs, c \in EngineScoreInputs}

EngineHistoryInputs ==
    {NoHistory, [list |-> <<[overall_risk_score |-> 40], [overall_risk_score |-> 100]>>]}

EnginePredictionInputs ==
    {[disc_results |-> [primary_style |-> "C", scores |-> sc],
      mental_health_results |-> mh, historical_data |-> h] :
        sc \in {x \in EngineDiscScores : x.D = x.I /\ x.S = x.C},
        mh \in {[phq9_score |-> 20, gad7_score |-> 6, burnout_score |-> 45],
                [phq9_score |-> 27, gad7_score |-> 21, burnout_score |-> 100]},
        h \in EngineHistoryInputs}

\* retention policy tables: the one create_sample_data writes, and the ones an
\* operator can leave in the table (no route writes it)
RetentionPolicyTables ==
    LET policy(i, dt, days, enabled) ==
            [id |-> i, data_type |-> dt, retention_period_days |-> days,
             auto_deletion_enabled |-> enabled]
    IN  {create_sample_data.data_retention_policies,
         {policy(1, "assessment_data", 2555, TRUE), policy(2, "personal_info", 1095, TRUE),
          policy(3, "processing_logs", 365, FALSE)},
         {policy(1, "assessment_data", 1, FALSE), policy(3, "processing_logs", 1, FALSE)},
         {policy(1, "assessment_data", 1, TRUE), policy(3, "processing_logs", 2, TRUE)},
         {policy(1, "processing_logs", 365, TRUE), policy(2, "processing_logs", 1, TRUE)},
         {policy(1, "processing_logs", 1, FALSE), policy(2, "processing_logs", 365, TRUE)},
         {}}

\* logs written before the first request: a year old, give or take a day
StoredLogTables ==
    LET log(i, ts) == [id |-> i, user_id |-> 1, processing_timestamp |-> ts]
    IN  {{}, {log(1, -366)}, {log(1, -365)}, {log(1, -366), log(2, -364)},
         {log(1, -364), log(2, -365), log(3, -1)}}

\* lines of an answer: blank, the three headers (numbered or not), a bullet, a
\* numbered line whose text starts with a digit, a bullet that names a header
\* keyword, a long and a short line of text
AiLines ==
    {<<>>,
     <<"1.", "Resumo">>,
     <<"2.", "Insights", "principais">>,
     <<"Recomendacoes">>,
     <<"-", "a">>,
     <<"1.", "3", "b">>,
     <<"*", "evidencias">>,
     <<"texto", "bastante", "comprido">>,
     <<"texto">>}

\* inputs of the scoring call: a key that is absent is drawn as -1
StyleInputs == {"D", "I", "S", "C", "X", "d"}

score_dict(p, g, b) ==
    [k \in {kv[1] : kv \in {x \in {<<"phq9_score", p>>, <<"gad7_score", g>>,
                                    <<"burnout_score", b>>} : x[2] >= 0}} |->
        IF k = "phq9_score" THEN p ELSE IF k = "gad7_score" THEN g ELSE b]

DiscInputs == {[primary_style |-> st] : st \in StyleInputs} \cup {<<>>}

MentalHealthInputs ==
    {score_dict(p, g, b) :
        p \in -1 .. MaxPhq9Input, g \in -1 .. MaxGad7Input, b \in -1 .. MaxBurnoutInput}

(***************************************************************************)
(* The HTTP application: one action per route, each a whole handler        *)
(***************************************************************************)

NoResponse == [op |-> "none"]

NoAssessment == [risk_level |-> "none"]

NoCall == [op |-> "none"]

NoParse == [pc |-> "idle"]

Serve(outcome) ==
    /\ served < MaxRequests
    /\ db' = outcome.db
    /\ response' = outcome.response
    /\ served' = served + 1
    /\ UNCHANGED <<scoring_vars, engine_vars, now>>

PostUsers == \E data \in UserRequests : Serve(create_user(db, data))

DeleteUser == \E u \in RequestUserIds : Serve(delete_user(db, u))

PutUserConsent ==
    \E u \in RequestUserIds, data \in ConsentPayloads : Serve(update_user_consent(db, u, data))

PostGdprConsent == \E data \in GdprRequests : Serve(record_consent(db, data))

PostDataProcessingLog ==
    \E data \in LogRequests : Serve(log_data_processing(db, data, now))

PostProfessionalOversight ==
    \E data \in OversightRequests : Serve(create_professional_oversight(db, data))

PostAssessmentsDisc == \E data \in DiscRequests : Serve(create_disc_assessment(db, data))

PostAssessmentsMentalHealth ==
    \E data \in MentalHealthRequests : Serve(create_mental_health_assessment(db, data))

PostCorrelate == \E data \in CorrelateRequests : Serve(analyze_correlation(db, data))

Init ==
    /\ db = create_sample_data
    /\ response = NoResponse
    /\ served = 0
    /\ disc_results = <<>>
    /\ mental_health_results = <<>>
    /\ risk_assessment = NoAssessment
    /\ oversight = FALSE
    /\ pc = "idle"
    /\ engine = lookup_tables
    /\ call = NoCall
    /\ parser = NoParse
    /\ now = 0

Next ==
    \/ PostUsers
    \/ DeleteUser
    \/ PutUserConsent
    \/ PostGdprConsent
    \/ PostDataProcessingLog
    \/ PostProfessionalOversight
    \/ PostAssessmentsDisc
    \/ PostAssessmentsMentalHealth
    \/ PostCorrelate

Spec == Init /\ [][Next]_vars

(***************************************************************************)
(* The scoring call on its own: every input, then the two functions        *)
(***************************************************************************)

CalculateRisk ==
    /\ pc = "start"
    /\ risk_assessment' = _calculate_risk_assessment(disc_results, mental_health_results)
    /\ pc' = "scored"
    /\ UNCHANGED <<disc_results, mental_health_results, oversight, http_vars, engine_vars>>

RequiresOversight ==
    /\ pc = "scored"
    /\ oversight' = _requires_professional_oversight(risk_assessment, mental_health_results)
    /\ pc' = "decided"
    /\ UNCHANGED <<disc_results, mental_health_results, risk_assessment, http_vars,
                   engine_vars>>

InitRisk ==
    /\ db = create_sample_data
    /\ response = NoResponse
    /\ served = 0
    /\ disc_results \in DiscInputs
    /\ mental_health_results \in MentalHealthInputs
    /\ risk_assessment = NoAssessment
    /\ oversight = FALSE
    /\ pc = "start"
    /\ engine = lookup_tables
    /\ call = NoCall
    /\ parser = NoParse
    /\ now = 0

NextRisk ==
    \/ CalculateRisk
    \/ RequiresOversight

SpecRisk == InitRisk /\ [][NextRisk]_vars

(***************************************************************************)
(* Properties of the scoring call (checked under SpecRisk)                 *)
(***************************************************************************)

DiscStyles == {"D", "I", "S", "C"}

\* the unrounded weighted score lies above `limit`
ScoreAbove(limit) ==
    LET s == risk_assessment.weighted_score
    IN  s.exact > limit * ScoreUnit \/ (s.exact = limit * ScoreUnit /\ s.above)

\* a mental-health score of the call, 0 when the key is absent
InputScore(key) ==
    IF key \in DOMAIN mental_health_results THEN mental_health_results[key] ELSE 0

\* C1: for every style and every PHQ-9/GAD-7/burnout input exactly one tier is
\* assigned from the weighted score: low when it is <= 25, moderate when > 25 and
\* <= 50, high when > 50 and <= 75, critical when > 75.
C1_TierFromWeightedScore ==
    pc # "start" =>
        LET level == risk_assessment.risk_level
        IN  /\ level \in {"low", "moderate", "high", "critical"}
            /\ (level = "low") <=> ~ScoreAbove(25)
            /\ (level = "moderate") <=> (ScoreAbove(25) /\ ~ScoreAbove(50))
            /\ (level = "high") <=> (ScoreAbove(50) /\ ~ScoreAbove(75))
            /\ (level = "critical") <=> ScoreAbove(75)

\* a score of exactly 50 has been tiered 'moderate'
C1_Witness ==
    /\ pc = "scored"
    /\ risk_assessment.weighted_score.exact = 50 * ScoreUnit
    /\ risk_assessment.risk_level = "moderate"

\* C2: for a primary style of D, I, S or C and in-range inputs (PHQ-9 0..27,
\* GAD-7 0..21, burnout 0..100) the overall_risk_score lies in 0..100.
C2_ScoreWithin0To100 ==
    ( /\ pc # "start"
      /\ "primary_style" \in DOMAIN disc_results
      /\ disc_results.primary_style \in DiscStyles
      /\ InputScore("phq9_score") \in 0 .. PHQ9_MAX
      /\ InputScore("gad7_score") \in 0 .. GAD7_MAX
      /\ InputScore("burnout_score") \in 0 .. NORM_MAX )
    => risk_assessment.overall_risk_score \in 0 .. (NORM_MAX * 10)

\* C3: a primary_style that is missing or is not D, I, S or C gets the D
\* multipliers: the overall score, the individual risks and the tier are those
\* of primary_style 'D' for the same mental-health scores.
C3_UnknownStyleScoredAsD ==
    ( /\ pc # "start"
      /\ \/ "primary_style" \notin DOMAIN disc_results
         \/ disc_results.primary_style \notin DiscStyles )
    => LET as_d == _calculate_risk_assessment([primary_style |-> "D"], mental_health_results)
       IN  /\ risk_assessment.disc_multipliers_applied
                = [burnout |-> 13, anxiety |-> 11, depression |-> 9]
           /\ risk_assessment.overall_risk_score = as_d.overall_risk_score
           /\ risk_assessment.individual_risks = as_d.individual_risks
           /\ risk_assessment.risk_level = as_d.risk_level

\* an unknown style has been scored with a non-zero result
C3_Witness ==
    /\ pc = "scored"
    /\ "primary_style" \in DOMAIN disc_results
    /\ disc_results.primary_style = "X"
    /\ risk_assessment.risk_level = "critical"

\* C7: oversight is required iff the tier is high or critical, or the overall
\* score is > 75, or PHQ-9 >= 15, or GAD-7 >= 15, or burnout >= 80; an absent
\* score counts as 0.
C7_OversightCriteria ==
    pc = "decided" =>
        ( oversight <=>
            \/ risk_assessment.risk_level \in {"high", "critical"}
            \/ risk_assessment.overall_risk_score > 750
            \/ InputScore("phq9_score") >= 15
            \/ InputScore("gad7_score") >= 15
            \/ InputScore("burnout_score") >= 80 )

\* oversight required by the burnout criterion alone, the other scores absent
C7_Witness ==
    /\ pc = "decided"
    /\ oversight
    /\ DOMAIN mental_health_results = {"burnout_score"}
    /\ mental_health_results.burnout_score = 80
    /\ risk_assessment.risk_level = "moderate"

(***************************************************************************)
(* Properties of the HTTP application (checked under Spec)                 *)
(***************************************************************************)

\* the consent record the routes read for a user: the one with the least id
ConsentRecord(d, user_id) ==
    {c \in d.consent_management :
        /\ c.user_id = user_id
        /\ \A o \in d.consent_management : o.user_id = user_id => c.id <= o.id}

\* tables whose rows carry a user_id foreign key
UserOwnedTables == TableNames \ {"users", "data_retention_policies"}

\* C4: POST /ai-analysis/correlate calls the engine only when the request has
\* user_id, disc_results and mental_health_results, the user exists and the
\* consent record has disc_assessment, mental_health_screening and
\* predictive_analysis all true; otherwise it answers 400, 404 or 403
\* respectively, the engine is not called and no row is stored.
C4_CorrelateGated ==
    [][ response'.op = "analyze_correlation" =>
          LET data == response'.request
              has_fields == {"user_id", "disc_results", "mental_health_results"}
                                \subseteq DOMAIN data
              user_exists == has_fields /\ \E u \in db.users : u.id = data.user_id
              consented ==
                  /\ has_fields
                  /\ \E c \in ConsentRecord(db, data.user_id) :
                        /\ c.disc_assessment
                        /\ c.mental_health_screening
                        /\ c.predictive_analysis
          IN  /\ response'.engine_called <=> (has_fields /\ user_exists /\ consented)
              /\ ~has_fields => response'.status = 400
              /\ (has_fields /\ ~user_exists) => response'.status = 404
              /\ (has_fields /\ user_exists /\ ~consented) => response'.status = 403
              /\ ~response'.engine_called => db' = db
      ]_vars

\* an existing user whose predictive_analysis consent alone is missing was refused
C4_Witness ==
    /\ response.op = "analyze_correlation"
    /\ response.status = 403
    /\ ~response.engine_called
    /\ \E u \in db.users : u.id = response.request.user_id
    /\ \E c \in ConsentRecord(db, response.request.user_id) :
          c.disc_assessment /\ c.mental_health_screening /\ ~c.predictive_analysis

\* C5: for an existing user and well-formed results the engine saves one
\* AIAnalysis row and one AIGovernance row (and one ProfessionalOversight row
\* exactly when oversight is required), commits, and returns success=true.
C5_EngineSavesAndSucceeds ==
    (response.op = "analyze_correlation" /\ response.engine_called) =>
        /\ response.result.success
        /\ response.status = 200
        /\ \E a \in db.ai_analyses : a.user_id = response.request.user_id
        /\ \E g \in db.ai_governance :
              /\ g.user_id = response.request.user_id
              /\ g.model_version = "v2.0.0-eu-compliant_correlation_analysis"
        /\ response.result.professional_oversight_required
              => \E o \in db.professional_oversight :
                    o.user_id = response.request.user_id /\ o.professional_id = 0

\* C6: when a step of analyze_correlation raises, the transaction is rolled
\* back and success=false is returned: no row the call added is persisted and
\* the rows committed earlier are unchanged.
C6_RaiseRollsBack ==
    [][ ( /\ response'.op = "analyze_correlation"
          /\ response'.engine_called
          /\ response'.result.raised # "none" )
        => /\ ~response'.result.success
           /\ response'.status = 500
           /\ db' = db
      ]_vars

\* the engine raised after adding a row, with rows of earlier requests committed
C6_Witness ==
    /\ response.op = "analyze_correlation"
    /\ response.engine_called
    /\ response.result.raised = "ProfessionalOversight"
    /\ response.result.discarded = 1
    /\ db.ai_analyses = {}
    /\ \E g \in db.ai_governance : g.model_version = "mental_health_v1.0"

\* C8: a DiscAssessment row is stored only by a request made while the user's
\* consent record has disc_assessment true, a MentalHealthAssessment row only
\* while mental_health_screening is true; a submission without a consent record
\* or with the flag false returns 403 and stores nothing.
C8_AssessmentsNeedConsent ==
    [][ /\ \A r \in db'.disc_assessments \ db.disc_assessments :
              \E c \in ConsentRecord(db, r.user_id) : c.disc_assessment
        /\ \A r \in db'.mental_health_assessments \ db.mental_health_assessments :
              \E c \in ConsentRecord(db, r.user_id) : c.mental_health_screening
        /\ ( /\ response'.op = "create_disc_assessment"
             /\ ~\E c \in ConsentRecord(db, response'.request.user_id) : c.disc_assessment )
           => (response'.status = 403 /\ db' = db)
        /\ ( /\ response'.op = "create_mental_health_assessment"
             /\ ~\E c \in ConsentRecord(db, response'.request.user_id) :
                    c.mental_health_screening )
           => (response'.status = 403 /\ db' = db)
      ]_vars

\* a user with a stored DISC assessment was refused after the flag went back to false
C8_Witness ==
    /\ response.op = "create_disc_assessment"
    /\ response.status = 403
    /\ \E r \in db.disc_assessments : r.user_id = response.request.user_id
    /\ \E c \in ConsentRecord(db, response.request.user_id) : ~c.disc_assessment

\* C9: no two users share an email; a POST /users whose email is registered
\* returns 400 and adds no row; a successful creation adds exactly one User and
\* exactly one ConsentManagement record, whose six flags are all false.
C9_UniqueEmails ==
    [][ /\ \A u1, u2 \in db'.users : u1.email = u2.email => u1 = u2
        /\ response'.op = "create_user" =>
              /\ (\E u \in db.users : u.email = response'.request.email)
                    => (response'.status = 400 /\ db' = db)
              /\ response'.status = 201 =>
                    /\ \E u \in db'.users :
                          /\ db'.users \ db.users = {u}
                          /\ u.email = response'.request.email
                          /\ \E c \in db'.consent_management :
                                /\ db'.consent_management \ db.consent_management = {c}
                                /\ c.user_id = u.id
                                /\ \A f \in ConsentFlags : ~c[f]
                    /\ db.users \subseteq db'.users
                    /\ db.consent_management \subseteq db'.consent_management
                    /\ \A t \in TableNames \ {"users", "consent_management"} : db'[t] = db[t]
      ]_vars

\* a second registration of an email created by an earlier request was refused
C9_Witness ==
    /\ response.op = "create_user"
    /\ response.status = 400
    /\ response.request.email = NewEmail
    /\ Cardinality(db.users) = 2

PostBatchProcess == \E data \in BatchRequests : Serve(batch_process_analyses(db, data))

NextBatch == PostBatchProcess

SpecBatch == Init /\ [][NextBatch]_vars

\* C11: POST /ai-analysis/batch-process answers 400 unless the batch holds 1 to 50
\* analyses; otherwise every entry is processed, a failing entry does not stop
\* the later ones, batch_results holds one result per entry and
\* successful + failed = total_processed.
C11_BatchProcessesEveryEntry ==
    response.op = "batch_process_analyses" =>
        LET n == Len(Get(response.request, "analyses", <<>>))
        IN  IF n = 0 \/ n > BATCH_LIMIT
            THEN response.status = 400
            ELSE /\ response.status = 200
                 /\ Len(response.batch_results) = n
                 /\ response.summary.total_processed = n
                 /\ response.summary.successful + response.summary.failed = n

(***************************************************************************)
(* generate_comprehensive_predictions on its own: every input, one call    *)
(***************************************************************************)

GeneratePredictions ==
    /\ call.op = "generate_comprehensive_predictions"
    /\ call.pc = "start"
    /\ LET done == generate_comprehensive_predictions(
                       engine, call.disc_results, call.mental_health_results,
                       call.historical_data, call.ulp)
       IN  /\ engine' = done.self
           /\ call' = [call EXCEPT !.pc = "done"] @@ [result |-> done.result]
    /\ UNCHANGED <<scoring_vars, http_vars, parser>>

InitPredictions ==
    /\ db = create_sample_data
    /\ response = NoResponse
    /\ served = 0
    /\ disc_results = <<>>
    /\ mental_health_results = <<>>
    /\ risk_assessment = NoAssessment
    /\ oversight = FALSE
    /\ pc = "idle"
    /\ engine = lookup_tables
    /\ parser = NoParse
    /\ now = 0
    /\ call \in {[op |-> "generate_comprehensive_predictions", pc |-> "start",
                  disc_results |-> dr, mental_health_results |-> mh,
                  historical_data |-> h, ulp |-> u] :
                    dr \in PredictionDiscInputs, mh \in PredictionMentalHealthInputs,
                    h \in HistoryInputs, u \in UlpInputs}

NextPredictions == GeneratePredictions

SpecPredictions == InitPredictions /\ [][NextPredictions]_vars

\* the prediction the engine computes for one type from the arguments of the call
ComputedPrediction(prediction_type) ==
    _calculate_prediction(prediction_type, prediction_models[prediction_type],
                          call.disc_results, call.mental_health_results,
                          call.historical_data, call.ulp)

\* C12: every prediction returned by generate_comprehensive_predictions has a
\* probability within 0..1 that is strictly greater than the confidence
\* threshold 0.65; a computed prediction whose probability is <= 0.65 is not
\* in the list.
C12_PredictionsAboveThreshold ==
    (call.op = "generate_comprehensive_predictions" /\ call.pc = "done") =>
        /\ \A i \in 1 .. Len(call.result.predictions) :
               LET probability == call.result.predictions[i].probability
               IN  /\ ~float_lt(probability, 0)
                   /\ ~float_gt(probability, PredUnit)
                   /\ float_gt(probability, confidence_threshold)
        /\ \A i \in 1 .. Len(prediction_types) :
               LET computed == ComputedPrediction(prediction_types[i])
               IN  (computed # NoPrediction
                    /\ ~float_gt(computed.probability, confidence_threshold))
                   => \A j \in 1 .. Len(call.result.predictions) :
                          call.result.predictions[j].type # prediction_types[i]

\* a call that computes a probability of exactly 0.65 for one type, drops it,
\* and returns another prediction
C12_Witness ==
    /\ call.op = "generate_comprehensive_predictions"
    /\ call.pc = "done"
    /\ call.result.predictions # <<>>
    /\ \E i \in 1 .. Len(prediction_types) :
           LET computed == ComputedPrediction(prediction_types[i])
           IN  /\ computed # NoPrediction
               /\ computed.probability = [exact |-> confidence_threshold, ulp |-> 0]

(***************************************************************************)
(* analyze_behavioral_patterns on its own: every input, one call           *)
(***************************************************************************)

AnalyzePatterns ==
    /\ call.op = "analyze_behavioral_patterns"
    /\ call.pc = "start"
    /\ LET done == analyze_behavioral_patterns(engine, call.disc_scores)
       IN  /\ engine' = done.self
           /\ call' = [call EXCEPT !.pc = "done"] @@ [result |-> done.result]
    /\ UNCHANGED <<scoring_vars, http_vars, parser>>

InitPatterns ==
    /\ db = create_sample_data
    /\ response = NoResponse
    /\ served = 0
    /\ disc_results = <<>>
    /\ mental_health_results = <<>>
    /\ risk_assessment = NoAssessment
    /\ oversight = FALSE
    /\ pc = "idle"
    /\ engine = lookup_tables
    /\ parser = NoParse
    /\ now = 0
    /\ call \in {[op |-> "analyze_behavioral_patterns", pc |-> "start", disc_scores |-> ds] :
                    ds \in PatternInputs}

NextPatterns == AnalyzePatterns

SpecPatterns == InitPatterns /\ [][NextPatterns]_vars

\* the share of a pattern's indicator weights that the scores satisfy is >= 70%
WeightedShareAtLeast70(disc_scores, indicators) ==
    LET satisfied == {st \in DOMAIN indicators :
                        indicator_satisfied(disc_scores, st, indicators[st])}
        weight_of == [st \in DOMAIN indicators |-> indicators[st].weight]
    IN  10 * sum_over(satisfied, weight_of) >= 7 * sum_over(DOMAIN indicators, weight_of)

\* C14: a behavioural pattern is identified when the weighted share of its
\* satisfied DISC indicators is at least 70%; in particular a score vector
\* that satisfies every indicator of a pattern has that pattern in
\* identified_patterns.
C14_PatternIdentifiedAt70Percent ==
    (call.op = "analyze_behavioral_patterns" /\ call.pc = "done"
     /\ "identified_patterns" \in DOMAIN call.result) =>
        \A i \in 1 .. Len(pattern_names) :
            LET name == pattern_names[i]
            IN  WeightedShareAtLeast70(call.disc_scores,
                                       behavioral_patterns[name].disc_indicators)
                => \E j \in 1 .. Len(call.result.identified_patterns) :
                       call.result.identified_patterns[j].pattern = title_of[name]

(***************************************************************************)
(* The scoring operations called one after another on the engine objects   *)
(* the application creates once (ai_engine, ai_predictions_engine,         *)
(* behavioral_analyzer)                                                    *)
(***************************************************************************)

\* what a call was asked, without what it answered or what came before it
asked(c) == [k \in DOMAIN c \ {"result", "previous"} |-> c[k]]

Answer(arguments, done) ==
    /\ engine' = done.self
    /\ call' = arguments @@ [pc |-> "done", result |-> done.result, previous |-> asked(call)]
    /\ UNCHANGED <<scoring_vars, http_vars, parser>>

CallRiskAssessment ==
    \E st \in EngineStyleInputs, mh \in EngineMentalHealthInputs :
        Answer([op |-> "_calculate_risk_assessment",
                disc_results |-> [primary_style |-> st], mental_health_results |-> mh],
               [self |-> engine,
                result |-> _calculate_risk_assessment([primary_style |-> st], mh)])

CallRecommendations ==
    \E st \in EngineStyleInputs, level \in EngineRiskLevels :
        Answer([op |-> "_get_disc_specific_recommendations",
                style |-> st, risk_level |-> level],
               _get_disc_specific_recommendations(engine, st, level))

CallPredictions ==
    \E in \in EnginePredictionInputs :
        Answer([op |-> "generate_comprehensive_predictions", ulp |-> 0] @@ in,
               generate_comprehensive_predictions(
                   engine, in.disc_results, in.mental_health_results,
                   in.historical_data, 0))

CallPatterns ==
    \E sc \in EngineDiscScores :
        Answer([op |-> "analyze_behavioral_patterns", disc_scores |-> sc],
               analyze_behavioral_patterns(engine, sc))

NextEngines ==
    \/ CallRiskAssessment
    \/ CallRecommendations
    \/ CallPredictions
    \/ CallPatterns

SpecEngines == Init /\ [][NextEngines]_vars

\* the answer the same call gets from engine objects that were just created
FreshAnswer ==
    IF call.op = "_calculate_risk_assessment"
    THEN _calculate_risk_assessment(call.disc_results, call.mental_health_results)
    ELSE IF call.op = "_get_disc_specific_recommendations"
    THEN _get_disc_specific_recommendations(lookup_tables, call.style,
                                            call.risk_level).result
    ELSE IF call.op = "generate_comprehensive_predictions"
    THEN generate_comprehensive_predictions(
             lookup_tables, call.disc_results, call.mental_health_results,
             call.historical_data, call.ulp).result
    ELSE analyze_behavioral_patterns(lookup_tables, call.disc_scores).result

\* C13: requests share no mutable state besides the database rows: after any
\* sequence of scoring calls the engines' lookup tables are what they were at
\* construction, and the answer to a call is the answer the same input gets
\* from fresh engines, whatever was called before.
C13_LookupTablesUnchanged ==
    /\ engine = lookup_tables
    /\ call.op # "none" => call.result = FreshAnswer

\* the S recommendation keeps priority medium at low risk right after a call
\* that raised it to high for a critical risk
C13_Witness ==
    /\ call.op = "_get_disc_specific_recommendations"
    /\ call.style = "S"
    /\ call.risk_level = "low"
    /\ call.result[1].priority = "medium"
    /\ call.previous = [op |-> "_get_disc_specific_recommendations", pc |-> "done",
                        style |-> "S", risk_level |-> "critical"]

(***************************************************************************)
(* Data retention: logs are written, days pass, the cleanup runs           *)
(***************************************************************************)

PostCleanup == Serve(run_data_retention_cleanup(db, now))

\* a day passes between two requests
Tick ==
    /\ now < MaxDay
    /\ now' = now + 1
    /\ UNCHANGED <<db, response, served, scoring_vars, engine_vars>>

InitRetention ==
    /\ \E policies \in RetentionPolicyTables, logs \in StoredLogTables :
           db = [create_sample_data EXCEPT !.data_retention_policies = policies,
                                           !.data_processing_logs = logs]
    /\ response = NoResponse
    /\ served = 0
    /\ disc_results = <<>>
    /\ mental_health_results = <<>>
    /\ risk_assessment = NoAssessment
    /\ oversight = FALSE
    /\ pc = "idle"
    /\ engine = lookup_tables
    /\ call = NoCall
    /\ parser = NoParse
    /\ now = 0

NextRetention ==
    \/ PostDataProcessingLog
    \/ PostCleanup
    \/ Tick

SpecRetention == InitRetention /\ [][NextRetention]_vars

\* a log is older than the cutoff of an enabled processing_logs policy
Expired(log, policies, utcnow) ==
    \E p \in policies :
        /\ p.data_type = "processing_logs"
        /\ p.auto_deletion_enabled
        /\ log.processing_timestamp < utcnow - p.retention_period_days

\* C15: POST /compliance/data-retention/cleanup deletes exactly the
\* DataProcessingLog rows whose processing_timestamp is older than now minus
\* the retention_period_days of a processing_logs policy with
\* auto_deletion_enabled, changes no row of any other table, and deletes
\* nothing when no policy has auto-deletion enabled.
C15_CleanupDeletesExpiredLogs ==
    [][(served' = served + 1 /\ response'.op = "run_data_retention_cleanup") =>
        /\ db'.data_processing_logs =
              {l \in db.data_processing_logs :
                  ~Expired(l, db.data_retention_policies, now)}
        /\ \A t \in TableNames \ {"data_processing_logs"} : db'[t] = db[t]
        /\ (\A p \in db.data_retention_policies : ~p.auto_deletion_enabled)
              => db' = db]_vars

\* a cleanup that deleted at least one log and kept one written through the route
C15_Witness ==
    /\ response.op = "run_data_retention_cleanup"
    /\ \E i \in 1 .. Len(response.cleanup_results) :
           /\ "deleted" \in DOMAIN response.cleanup_results[i]
           /\ response.cleanup_results[i].deleted > 0
    /\ \E l \in db.data_processing_logs : l.processing_timestamp >= 0

(***************************************************************************)
(* _parse_ai_response: the walk over the lines, one line at a time         *)
(***************************************************************************)

ReadLine ==
    /\ parser.pc = "reading"
    /\ parser.read < MaxLines
    /\ \E line \in AiLines : parser' = parse_line(parser, line)
    /\ UNCHANGED <<scoring_vars, http_vars, engine, call>>

ReturnParsed ==
    /\ parser.pc = "reading"
    /\ parser' = [parser EXCEPT !.pc = "returned"] @@ [result |-> parse_result(parser)]
    /\ UNCHANGED <<scoring_vars, http_vars, engine, call>>

InitParser ==
    /\ db = create_sample_data
    /\ response = NoResponse
    /\ served = 0
    /\ disc_results = <<>>
    /\ mental_health_results = <<>>
    /\ risk_assessment = NoAssessment
    /\ oversight = FALSE
    /\ pc = "idle"
    /\ engine = lookup_tables
    /\ call = NoCall
    /\ now = 0
    /\ parser = parse_start

NextParser ==
    \/ ReadLine
    \/ ReturnParsed

SpecParser == InitParser /\ [][NextParser]_vars

\* a line that opens with a bullet character or a digit
BulletOrNumbered(line) ==
    line # <<>> /\ line[1] \in {"-", "*", "1.", "2.", "3"}

\* item is what is left of line after some of its leading words
TakenFrom(item, line) ==
    \E k \in 1 .. Len(line) : item = SubSeq(line, k, Len(line))

\* list grew by one item, taken from the line just read, read in section
GrewFromLine(list, grown, line, section_then, section) ==
    /\ Len(grown) = Len(list) + 1
    /\ SubSeq(grown, 1, Len(list)) = list
    /\ BulletOrNumbered(line)
    /\ TakenFrom(grown[Len(grown)], line)
    /\ section_then = section

\* C16: _parse_ai_response walks the lines keeping a current section; the
\* result has at most 5 key_insights and at most 4 ai_recommendations, each
\* taken from a bullet or numbered line read while the current section was
\* insights or recommendations; analysis_quality is high exactly when at
\* least 3 insight lines were collected, otherwise medium.
C16_ParsedListsAndQuality ==
    /\ [](parser.pc = "returned" =>
            /\ Len(parser.result.key_insights) <= 5
            /\ Len(parser.result.ai_recommendations) <= 4
            /\ \A i \in 1 .. Len(parser.result.key_insights) :
                   parser.result.key_insights[i] = parser.key_insights[i]
            /\ \A i \in 1 .. Len(parser.result.ai_recommendations) :
                   parser.result.ai_recommendations[i] = parser.ai_recommendations[i]
            /\ parser.result.analysis_quality \in {"high", "medium"}
            /\ parser.result.analysis_quality = "high"
                  <=> Len(parser.key_insights) >= 3)
    /\ [][(parser.pc = "reading" /\ parser'.pc = "reading") =>
            /\ parser'.key_insights # parser.key_insights =>
                  GrewFromLine(parser.key_insights, parser'.key_insights, parser'.line,
                               parser.current_section, "insights")
            /\ parser'.ai_recommendations # parser.ai_recommendations =>
                  GrewFromLine(parser.ai_recommendations, parser'.ai_recommendations,
                               parser'.line, parser.current_section,
                               "recommendations")]_vars

\* six insight lines were collected, five returned, and the quality is high
C16_Witness ==
    /\ parser.pc = "returned"
    /\ Len(parser.key_insights) = 6
    /\ Len(parser.result.key_insights) = 5
    /\ parser.result.analysis_quality = "high"

\* the scores of the request, as the specification's thresholds read them
SevereScores(scores) ==
    \/ ("phq9_score" \in DOMAIN scores /\ scores.phq9_score >= 15)
    \/ ("gad7_score" \in DOMAIN scores /\ scores.gad7_score >= 15)
    \/ ("burnout_score" \in DOMAIN scores /\ scores.burnout_score >= 70)

====
